---------------------------- MODULE Spec2Model ----------------------------
(***************************************************************************)
(* DREX, the commercial dryer exhaust calculator (src/drex_calculator.py). *)
(*                                                                         *)
(* The engine (duct physics, manifold optimizer, fan selector) and the     *)
(* wizard that drives it over the Streamlit session state.                 *)
(*                                                                         *)
(* Numbers.  The program computes in IEEE doubles; the model computes in   *)
(* fixed point, rounding down at each step the program rounds at:          *)
(*   cfm            CFM, integer (number_input with integer step)          *)
(*   length         feet, integer                                          *)
(*   diameter       inches, integer                                        *)
(*   k values       1/100                                                  *)
(*   velocity       1/10 FPM                                               *)
(*   pressure       1/10000 IN WC                                          *)
(*   density        1/10000 lb/ft^3                                        *)
(*   available_cfm  1/10000 CFM (exact on the catalog: SP steps are 0.25)  *)
(*   margin         1/10000 percent                                        *)
(* TLC's integers are 32 bits wide, so products that would overflow go     *)
(* through MulDiv, an exact floor(a*b/c) by long multiplication.           *)
(***************************************************************************)
EXTENDS Integers, Sequences, FiniteSets, TLC

VARIABLES
    step,                 \* st.session_state.step
    project_info,         \* st.session_state.project_info
    dryers,               \* st.session_state.dryers
    manifold_info,        \* st.session_state.manifold_info
    calculation_results,  \* st.session_state.calculation_results
    report,               \* outcome of the report button pressed in this run
    call                  \* the engine call under observation (SpecEngine)

vars == <<step, project_info, dryers, manifold_info, calculation_results,
          report, call>>

session == <<step, project_info, dryers, manifold_info, calculation_results,
             report>>

-----------------------------------------------------------------------------
(* Fixed-point arithmetic *)

Scale4 == 10^4
Scale6 == 10^6

\* <<q, r>> with a*b = q*c + r and 0 <= r < c, for a, b >= 0 and
\* 0 < c <= 10^6, by long multiplication over the base-1024 digits of b
RECURSIVE MulDivQR(_, _, _)
MulDivQR(a, b, c) ==
    IF b = 0 THEN <<0, 0>>
    ELSE LET h   == MulDivQR(a, b \div 1024, c)
             low == b % 1024
             s   == 1024 * h[2] + (a % c) * low
         IN  <<1024 * h[1] + (a \div c) * low + (s \div c), s % c>>

\* floor(a*b/c)
MulDiv(a, b, c) == MulDivQR(a, b, c)[1]

Abs(x) == IF x < 0 THEN -x ELSE x

-----------------------------------------------------------------------------
(* Constants of the program *)

DRYER_CONNECTOR_MAX_DP == 2500
MANIFOLD_MAX_DP == 10000
AIR_DENSITY == 696
DUCT_FRICTION_FACTOR == 35

K_VALUES ==
    [elbow90 |-> 50, elbow45 |-> 25, elbow30 |-> 15, lateral_tee |-> 75,
     entry_flush |-> 50, exit |-> 100]

FanModels == <<"DEF04", "DEF08", "DEF015", "DEF025", "DEF035", "DEF050">>

DEF_FAN_CURVES ==
    [DEF04  |-> [CFM |-> <<540, 490, 430, 350, 240>>,
                 SP  |-> <<0, 2500, 5000, 7500, 10000>>],
     DEF08  |-> [CFM |-> <<970, 890, 840, 780, 680, 540, 440, 270>>,
                 SP  |-> <<0, 2500, 5000, 7500, 10000, 12500, 15000, 17500>>],
     DEF015 |-> [CFM |-> <<1860, 1780, 1700, 1610, 1520, 1410, 1280, 1140, 990>>,
                 SP  |-> <<0, 2500, 5000, 7500, 10000, 12500, 15000, 17500, 20000>>],
     DEF025 |-> [CFM |-> <<2480, 2400, 2320, 2230, 2140, 2040, 1930, 1790, 1630>>,
                 SP  |-> <<0, 2500, 5000, 7500, 10000, 12500, 15000, 17500, 20000>>],
     DEF035 |-> [CFM |-> <<4100, 3940, 3770, 3610, 3460, 3300, 3120, 2900, 2630>>,
                 SP  |-> <<0, 2500, 5000, 7500, 10000, 12500, 15000, 17500, 20000>>],
     DEF050 |-> [CFM |-> <<5850, 5660, 5450, 5300, 5090, 4890, 4680, 4460, 4230>>,
                 SP  |-> <<0, 2500, 5000, 7500, 10000, 12500, 15000, 17500, 20000>>]]

standard_diameters ==
    <<4, 5, 6, 7, 8, 9, 10, 12, 14, 16, 18, 20, 22, 24, 26, 28, 30, 32, 34, 36>>

\* Python's None
None == [none |-> TRUE]

\* A run that raised nothing
NoException == "no exception"

-----------------------------------------------------------------------------
(* Duct physics *)

\* np.pi as a ratio (355/113, relative error 8.5e-8)
PiNum == 355
PiDen == 113

\* area_sq_ft = (np.pi * (diameter / 12) ** 2) / 4, as the pair
\* <<numerator, denominator>> of pi * d^2 / 576
area_sq_ft(diameter) == <<PiNum * diameter * diameter, PiDen * 576>>

\* Variant: the flow multiplied by the duct width instead of divided by the
\* duct area, so that a wider duct carries faster air
velocity_times_diameter(cfm, diameter) ==
    IF diameter > 0 THEN (cfm * diameter) \div 2 ELSE 0

\* cfm / area_sq_ft when the area is positive, else 0; in 1/10 FPM
calculate_velocity(cfm, diameter) ==
    LET area == area_sq_ft(diameter)
    IN  IF area[1] > 0
        THEN MulDiv(cfm * 10 * 576, PiDen, area[1])
        ELSE 0

\* Variant: the guard written diameter < 0, so that a zero diameter reaches
\* the division
pressure_loss_run_guard_lt(length, diameter, velocity, k_sum, rho) ==
    IF diameter < 0
    THEN [ret |-> 0, divided |-> FALSE, raised |-> NoException]
    ELSE IF diameter = 0
    THEN [ret |-> None, divided |-> TRUE, raised |-> "ZeroDivisionError"]
    ELSE LET friction_term == (DUCT_FRICTION_FACTOR * Scale4 * length) \div diameter
             total_term    == friction_term + k_sum * Scale4
             velocity_quot == MulDiv(velocity, Scale4, 10962)
             velocity_term == MulDiv(velocity_quot, velocity_quot, Scale4)
             dp            == MulDiv(MulDiv(total_term, rho, Scale4),
                                     velocity_term, Scale6)
         IN  [ret |-> dp, divided |-> TRUE, raised |-> NoException]

\* Variant: the friction factor left out of the friction term
pressure_loss_run_no_factor(length, diameter, velocity, k_sum, rho) ==
    IF diameter <= 0
    THEN [ret |-> 0, divided |-> FALSE, raised |-> NoException]
    ELSE LET friction_term == (Scale6 * length) \div diameter
             total_term    == friction_term + k_sum * Scale4
             velocity_quot == MulDiv(velocity, Scale4, 10962)
             velocity_term == MulDiv(velocity_quot, velocity_quot, Scale4)
             dp            == MulDiv(MulDiv(total_term, rho, Scale4),
                                     velocity_term, Scale6)
         IN  [ret |-> dp, divided |-> TRUE, raised |-> NoException]

\* Variant: the velocity term not squared
pressure_loss_run_not_squared(length, diameter, velocity, k_sum, rho) ==
    IF diameter <= 0
    THEN [ret |-> 0, divided |-> FALSE, raised |-> NoException]
    ELSE LET friction_term == (DUCT_FRICTION_FACTOR * Scale4 * length) \div diameter
             total_term    == friction_term + k_sum * Scale4
             velocity_term == MulDiv(velocity, Scale4, 10962)
             dp            == MulDiv(MulDiv(total_term, rho, Scale4),
                                     velocity_term, Scale6)
         IN  [ret |-> dp, divided |-> TRUE, raised |-> NoException]

\* Variant: the friction term taken as diameter over length
pressure_loss_run_friction_inverted(length, diameter, velocity, k_sum, rho) ==
    IF diameter <= 0
    THEN [ret |-> 0, divided |-> FALSE, raised |-> NoException]
    ELSE LET friction_term == IF length = 0 THEN 0
                              ELSE (DUCT_FRICTION_FACTOR * Scale4 * diameter)
                                       \div length
             total_term    == friction_term + k_sum * Scale4
             velocity_quot == MulDiv(velocity, Scale4, 10962)
             velocity_term == MulDiv(velocity_quot, velocity_quot, Scale4)
             dp            == MulDiv(MulDiv(total_term, rho, Scale4),
                                     velocity_term, Scale6)
         IN  [ret |-> dp, divided |-> TRUE, raised |-> NoException]

\* The run of calculate_duct_pressure_loss: what it returns and whether it
\* reached the division by the diameter.
calculate_duct_pressure_loss_run(length, diameter, velocity, k_sum, rho) ==
    IF diameter <= 0
    THEN [ret |-> 0, divided |-> FALSE, raised |-> NoException]
    ELSE LET friction_term == (DUCT_FRICTION_FACTOR * Scale4 * length) \div diameter
             total_term    == friction_term + k_sum * Scale4
             velocity_quot == MulDiv(velocity, Scale4, 10962)
             velocity_term == MulDiv(velocity_quot, velocity_quot, Scale4)
             dp            == MulDiv(MulDiv(total_term, rho, Scale4),
                                     velocity_term, Scale6)
         IN  [ret |-> dp, divided |-> TRUE, raised |-> NoException]

calculate_duct_pressure_loss(length, diameter, velocity, k_sum, rho) ==
    calculate_duct_pressure_loss_run(length, diameter, velocity, k_sum, rho).ret

\* Variant: the density lowered with the project's elevation
loss_density_by_elevation(length, diameter, velocity, k_sum) ==
    calculate_duct_pressure_loss(
        length, diameter, velocity, k_sum,
        IF project_info.set /\ project_info.elevation > 0
        THEN (AIR_DENSITY * 82) \div 100 ELSE AIR_DENSITY)

\* The call without rho: the parameter defaults to AIR_DENSITY
calculate_duct_pressure_loss_default(length, diameter, velocity, k_sum) ==
    calculate_duct_pressure_loss(length, diameter, velocity, k_sum, AIR_DENSITY)

-----------------------------------------------------------------------------
(* Manifold diameter optimizer *)

\* The for loop from position i on, then the fallback to the largest diameter
RECURSIVE optimize_loop(_, _, _, _, _)
optimize_loop(i, total_cfm, length, k_sum, max_dp) ==
    LET last     == Len(standard_diameters)
        diameter == standard_diameters[IF i <= last THEN i ELSE last]
        velocity == calculate_velocity(total_cfm, diameter)
        dp       == calculate_duct_pressure_loss_default(length, diameter,
                                                         velocity, k_sum)
    IN  IF i > last \/ dp <= max_dp
        THEN <<diameter, velocity, dp>>
        ELSE optimize_loop(i + 1, total_cfm, length, k_sum, max_dp)

\* Variant: the diameters tried from the largest down
RECURSIVE optimize_loop_descending(_, _, _, _, _)
optimize_loop_descending(i, total_cfm, length, k_sum, max_dp) ==
    LET diameter == standard_diameters[IF i >= 1 THEN i ELSE Len(standard_diameters)]
        velocity == calculate_velocity(total_cfm, diameter)
        dp       == calculate_duct_pressure_loss_default(length, diameter,
                                                         velocity, k_sum)
    IN  IF i < 1 \/ dp <= max_dp
        THEN <<diameter, velocity, dp>>
        ELSE optimize_loop_descending(i - 1, total_cfm, length, k_sum, max_dp)

optimize_descending(total_cfm, length, k_sum, max_dp) ==
    optimize_loop_descending(Len(standard_diameters), total_cfm, length,
                             k_sum, max_dp)

\* <<diameter, velocity, dp>>
optimize_manifold_diameter(total_cfm, length, k_sum, max_dp) ==
    optimize_loop(1, total_cfm, length, k_sum, max_dp)

-----------------------------------------------------------------------------
(* Fan selector *)

RECURSIVE SeqMax(_)
SeqMax(s) ==
    IF Len(s) = 1 THEN s[1]
    ELSE LET m == SeqMax(Tail(s)) IN IF s[1] >= m THEN s[1] ELSE m

\* Variant: the step between the two samples applied with the wrong sign
np_interp_wrong_sign(x, xp, fp) ==
    LET n == Len(xp)
    IN  IF x <= xp[1] THEN fp[1] * Scale4
        ELSE IF x >= xp[n] THEN fp[n] * Scale4
        ELSE LET j    == CHOOSE i \in 1..(n - 1) : xp[i] <= x /\ x < xp[i + 1]
                 rise == fp[j + 1] - fp[j]
                 part == MulDiv(Abs(rise) * (x - xp[j]), Scale4,
                                xp[j + 1] - xp[j])
             IN  IF rise >= 0 THEN fp[j] * Scale4 - part
                 ELSE fp[j] * Scale4 + part

\* Variant: the sample at or below x taken as it is, no interpolation
np_interp_step(x, xp, fp) ==
    LET n == Len(xp)
    IN  IF x <= xp[1] THEN fp[1] * Scale4
        ELSE IF x >= xp[n] THEN fp[n] * Scale4
        ELSE LET j == CHOOSE i \in 1..(n - 1) : xp[i] <= x /\ x < xp[i + 1]
             IN  fp[j] * Scale4

\* np.interp(x, xp, fp) for ascending xp: fp is held constant outside
\* [xp[1], xp[n]], and inside the result lies on the segment through the two
\* samples around x.  In 1/10000 of fp's unit.
np_interp(x, xp, fp) ==
    LET n == Len(xp)
    IN  IF x <= xp[1] THEN fp[1] * Scale4
        ELSE IF x >= xp[n] THEN fp[n] * Scale4
        ELSE LET j    == CHOOSE i \in 1..(n - 1) : xp[i] <= x /\ x < xp[i + 1]
                 rise == fp[j + 1] - fp[j]
                 part == MulDiv(Abs(rise) * (x - xp[j]), Scale4,
                                xp[j + 1] - xp[j])
             IN  IF rise >= 0 THEN fp[j] * Scale4 + part
                 ELSE fp[j] * Scale4 - part

\* Variant: the excess taken relative to available_cfm (whole CFM)
margin_percent_of_available(available_cfm, required_cfm) ==
    LET excess == available_cfm - required_cfm * Scale4
    IN  IF excess >= 0 THEN MulDiv(excess, 100, available_cfm \div Scale4)
        ELSE -MulDiv(-excess, 100, available_cfm \div Scale4)

\* margin = ((available_cfm - required_cfm) / required_cfm) * 100
margin_percent(available_cfm, required_cfm) ==
    LET excess == available_cfm - required_cfm * Scale4
    IN  IF excess >= 0 THEN MulDiv(excess, 100, required_cfm)
        ELSE -MulDiv(-excess, 100, required_cfm)

\* The entry select_def_fan appends for a fan it keeps
fan_record(fan_model, available_cfm, required_cfm) ==
    [model         |-> fan_model,
     available_cfm |-> available_cfm,
     margin        |-> margin_percent(available_cfm, required_cfm),
     max_cfm       |-> SeqMax(DEF_FAN_CURVES[fan_model].CFM),
     max_sp        |-> SeqMax(DEF_FAN_CURVES[fan_model].SP)]

\* if required_sp <= max(sp_values): the only test made before the curve is
\* interpolated
within_max_sp(fan_model, required_sp) ==
    required_sp <= SeqMax(DEF_FAN_CURVES[fan_model].SP)

\* The fans whose curve a call interpolates (np.interp runs for them)
interpolated_fans(required_sp) ==
    {m \in DOMAIN DEF_FAN_CURVES : within_max_sp(m, required_sp)}

\* Variant: the fan's peak airflow compared with required_cfm in place of the
\* interpolated airflow
fan_entry_peak_cfm(fan_model, required_cfm, required_sp) ==
    LET cfm_values == DEF_FAN_CURVES[fan_model].CFM
        sp_values  == DEF_FAN_CURVES[fan_model].SP
    IN  IF within_max_sp(fan_model, required_sp)
        THEN LET available_cfm == np_interp(required_sp, sp_values, cfm_values)
             IN  IF SeqMax(cfm_values) >= required_cfm
                 THEN <<fan_record(fan_model, available_cfm, required_cfm)>>
                 ELSE <<>>
        ELSE <<>>

\* Variant: no airflow test at all, every fan within its pressure range kept
fan_entry_any_cfm(fan_model, required_cfm, required_sp) ==
    LET cfm_values == DEF_FAN_CURVES[fan_model].CFM
        sp_values  == DEF_FAN_CURVES[fan_model].SP
    IN  IF within_max_sp(fan_model, required_sp)
        THEN <<fan_record(fan_model,
                          np_interp(required_sp, sp_values, cfm_values),
                          required_cfm)>>
        ELSE <<>>

\* The body of the loop over DEF_FAN_CURVES for one fan: the entry appended
\* to suitable_fans, or <<>> when the fan is passed over
fan_entry(fan_model, required_cfm, required_sp) ==
    LET cfm_values == DEF_FAN_CURVES[fan_model].CFM
        sp_values  == DEF_FAN_CURVES[fan_model].SP
    IN  IF within_max_sp(fan_model, required_sp)
        THEN LET available_cfm == np_interp(required_sp, sp_values, cfm_values)
             IN  IF available_cfm >= required_cfm * Scale4
                 THEN <<fan_record(fan_model, available_cfm, required_cfm)>>
                 ELSE <<>>
        ELSE <<>>

\* Variant: the key without abs
sort_key_signed(x) == x.margin - 175 * 1000

\* key=lambda x: abs(x['margin'] - 17.5)
sort_key(x) == Abs(x.margin - 175 * 1000)

\* list.sort is stable: an entry goes after the entries whose key is not larger
RECURSIVE insert_sorted(_, _)
insert_sorted(s, e) ==
    IF s = <<>> THEN <<e>>
    ELSE IF sort_key(e) < sort_key(s[1]) THEN <<e>> \o s
    ELSE <<s[1]>> \o insert_sorted(Tail(s), e)

RECURSIVE list_sort(_)
list_sort(s) ==
    IF s = <<>> THEN <<>>
    ELSE insert_sorted(list_sort(SubSeq(s, 1, Len(s) - 1)), s[Len(s)])

\* suitable_fans before the sort, in catalog order
RECURSIVE collect_fans(_, _, _)
collect_fans(i, required_cfm, required_sp) ==
    IF i > Len(FanModels) THEN <<>>
    ELSE fan_entry(FanModels[i], required_cfm, required_sp)
         \o collect_fans(i + 1, required_cfm, required_sp)

select_def_fan(required_cfm, required_sp) ==
    list_sort(collect_fans(1, required_cfm, required_sp))

\* 'selected_fan': suitable_fans[0] if suitable_fans else None
selected_fan_of(suitable_fans) ==
    IF suitable_fans # <<>> THEN suitable_fans[1] ELSE None

-----------------------------------------------------------------------------
(* Session state *)

\* a model-sized stand-in for the program's limit of 20 dryers
MaxDryers == 2
\* largest "Number of copies to add" tried
MaxCopies == 2

\* An empty dict is [set |-> FALSE]; a filled one carries set |-> TRUE.
EmptyDict == [set |-> FALSE]

\* The state after initialize_session_state on a fresh (or cleared) session
InitSession ==
    /\ step = "welcome"
    /\ project_info = EmptyDict
    /\ dryers = <<>>
    /\ manifold_info = EmptyDict
    /\ calculation_results = EmptyDict
    /\ report = None

\* Variant: the reset goes to the welcome step and keeps the dryer list
session_state_clear_keeps_dryers ==
    /\ step' = "welcome"
    /\ project_info' = EmptyDict
    /\ dryers' = dryers
    /\ manifold_info' = EmptyDict
    /\ calculation_results' = EmptyDict
    /\ report' = None

\* st.session_state.clear(); st.rerun(): main runs initialize_session_state
session_state_clear ==
    /\ step' = "welcome"
    /\ project_info' = EmptyDict
    /\ dryers' = <<>>
    /\ manifold_info' = EmptyDict
    /\ calculation_results' = EmptyDict
    /\ report' = None

RECURSIVE SeqSum(_)
SeqSum(s) == IF s = <<>> THEN 0 ELSE s[1] + SeqSum(Tail(s))

-----------------------------------------------------------------------------
(* Sidebar and welcome screen *)

StartOver ==
    /\ session_state_clear
    /\ UNCHANGED call

WelcomeNext ==
    /\ step = "welcome"
    /\ step' = "project_info"
    /\ report' = None
    /\ UNCHANGED <<project_info, dryers, manifold_info, calculation_results, call>>

-----------------------------------------------------------------------------
(* Project information screen *)

ProjectNames == {"", "Laundry"}
ZipCodes == {"", "8020", "8020x", "80202"}
UserNames == {"", "Pat"}
UserEmails == {"", "pat@example.com"}

\* Variant: the digit test accepts every string
zip_isdigit_always(zip_code) == TRUE

\* zip_code.isdigit() and len(zip_code), on the zip codes tried
ZipIsDigit(zip_code) == zip_code \in {"8020", "80202"}
ZipLen(zip_code) ==
    IF zip_code = "" THEN 0 ELSE IF zip_code = "8020" THEN 4 ELSE 5

\* What get_elevation_from_zip can return: the lookup's result, or
\* {'success': False} when a request fails, raises or times out
ElevationLookups ==
    {[success |-> TRUE, city |-> "Denver", state |-> "CO", elevation |-> 5280],
     [success |-> FALSE]}

SubmitProjectInfo ==
    /\ step = "project_info"
    /\ \E project_name \in ProjectNames, zip_code \in ZipCodes,
          user_name \in UserNames, user_email \in UserEmails,
          location_info \in ElevationLookups :
        IF "" \in {project_name, zip_code, user_name, user_email}
        THEN UNCHANGED <<project_info, step>>
        ELSE IF ZipLen(zip_code) # 5 \/ ~ZipIsDigit(zip_code)
        THEN UNCHANGED <<project_info, step>>
        ELSE /\ project_info' =
                  [set        |-> TRUE,
                   name       |-> project_name,
                   zip        |-> zip_code,
                   user_name  |-> user_name,
                   user_email |-> user_email,
                   city       |-> IF location_info.success
                                  THEN location_info.city ELSE "Unknown",
                   state      |-> IF location_info.success
                                  THEN location_info.state ELSE "Unknown",
                   elevation  |-> IF location_info.success
                                  THEN location_info.elevation ELSE 0]
             /\ step' = "dryer_input"
    /\ report' = None
    /\ UNCHANGED <<dryers, manifold_info, calculation_results, call>>

-----------------------------------------------------------------------------
(* Dryer input screen *)

\* The add-dryer forms tried (additional_k in 1/100)
DryerForms ==
    {[cfm |-> 200, outlet_diameter |-> 4, connector_length |-> 10,
      additional_k |-> 0, num_90_elbows |-> 2, num_45_elbows |-> 0,
      num_30_elbows |-> 0, num_lateral_tees |-> 1],
     [cfm |-> 200, outlet_diameter |-> 6, connector_length |-> 10,
      additional_k |-> 0, num_90_elbows |-> 0, num_45_elbows |-> 0,
      num_30_elbows |-> 0, num_lateral_tees |-> 0],
     [cfm |-> 3000, outlet_diameter |-> 12, connector_length |-> 20,
      additional_k |-> 10, num_90_elbows |-> 1, num_45_elbows |-> 1,
      num_30_elbows |-> 1, num_lateral_tees |-> 0]}

\* Variant: the exit loss left out of the connector's k-sum
k_total_no_exit(f) ==
    f.num_90_elbows * K_VALUES.elbow90
    + f.num_45_elbows * K_VALUES.elbow45
    + f.num_30_elbows * K_VALUES.elbow30
    + f.num_lateral_tees * K_VALUES.lateral_tee
    + K_VALUES.entry_flush
    + f.additional_k

k_total(f) ==
    f.num_90_elbows * K_VALUES.elbow90
    + f.num_45_elbows * K_VALUES.elbow45
    + f.num_30_elbows * K_VALUES.elbow30
    + f.num_lateral_tees * K_VALUES.lateral_tee
    + K_VALUES.entry_flush
    + K_VALUES.exit
    + f.additional_k

\* The parts joined by ", " into the fittings summary (the manifold form
\* builds its summary the same way, lines 1064-1074)
fittings_summary(f) ==
    (IF f.num_90_elbows > 0
     THEN <<[count |-> f.num_90_elbows, fitting |-> "90 Elbow"]>> ELSE <<>>)
    \o (IF f.num_45_elbows > 0
        THEN <<[count |-> f.num_45_elbows, fitting |-> "45 Elbow"]>> ELSE <<>>)
    \o (IF f.num_30_elbows > 0
        THEN <<[count |-> f.num_30_elbows, fitting |-> "30 Elbow"]>> ELSE <<>>)
    \o (IF f.num_lateral_tees > 0
        THEN <<[count |-> f.num_lateral_tees, fitting |-> "Lateral Tee"]>>
        ELSE <<>>)
    \o <<[count |-> 1, fitting |-> "Entry + Exit"]>>

dryer_obj(f) ==
    LET velocity == calculate_velocity(f.cfm, f.outlet_diameter)
        dp == calculate_duct_pressure_loss_default(
                  f.connector_length, f.outlet_diameter, velocity, k_total(f))
    IN  [cfm                        |-> f.cfm,
         outlet_diameter            |-> f.outlet_diameter,
         connector_length           |-> f.connector_length,
         additional_k               |-> f.additional_k,
         total_k                    |-> k_total(f),
         connector_fittings_summary |-> fittings_summary(f),
         connector_velocity         |-> velocity,
         connector_dp               |-> dp]

\* Variant: the copy count taken as entered, not limited to the room left
copy_count_unlimited(a, b) == a

Min(a, b) == IF a <= b THEN a ELSE b

\* Variant: a dryer whose connector loss is above the ceiling is not added
RECURSIVE append_copies_within_ceiling(_, _, _)
append_copies_within_ceiling(list, obj, n) ==
    IF n <= 0 \/ obj.connector_dp > DRYER_CONNECTOR_MAX_DP THEN list
    ELSE append_copies_within_ceiling(Append(list, obj), obj, n - 1)

\* Variant: one dryer appended whatever the copy count
append_one_copy(list, obj, n) == Append(list, obj)

\* for _ in range(n): dryers.append(obj.copy())
RECURSIVE append_copies(_, _, _)
append_copies(list, obj, n) ==
    IF n <= 0 THEN list ELSE append_copies(Append(list, obj), obj, n - 1)

\* Variant: the entry removed together with every entry after it
list_pop_truncate(list, idx) == SubSeq(list, 1, idx - 1)

\* dryers.pop(idx), idx counted from 1
list_pop(list, idx) ==
    SubSeq(list, 1, idx - 1) \o SubSeq(list, idx + 1, Len(list))

RemoveDryer ==
    /\ step = "dryer_input"
    /\ \E idx \in 1..Len(dryers) : dryers' = list_pop(dryers, idx)
    /\ report' = None
    /\ UNCHANGED <<step, project_info, manifold_info, calculation_results, call>>

AddDryers ==
    /\ step = "dryer_input"
    /\ Len(dryers) < MaxDryers
    /\ \E f \in DryerForms, copy_count \in 1..MaxCopies :
        dryers' = append_copies(dryers, dryer_obj(f),
                                Min(copy_count, MaxDryers - Len(dryers)))
    /\ report' = None
    /\ UNCHANGED <<step, project_info, manifold_info, calculation_results, call>>

BackToProjectInfo ==
    /\ step = "dryer_input"
    /\ step' = "project_info"
    /\ report' = None
    /\ UNCHANGED <<project_info, dryers, manifold_info, calculation_results, call>>

\* Variant: Continue shows the stored results again when a calculation exists
ContinueToManifold_to_stored_results ==
    /\ step = "dryer_input"
    /\ dryers # <<>>
    /\ step' = IF calculation_results.set THEN "results" ELSE "manifold_input"
    /\ report' = None
    /\ UNCHANGED <<project_info, dryers, manifold_info, calculation_results, call>>

ContinueToManifold ==
    /\ step = "dryer_input"
    /\ dryers # <<>>
    /\ step' = "manifold_input"
    /\ report' = None
    /\ UNCHANGED <<project_info, dryers, manifold_info, calculation_results, call>>

-----------------------------------------------------------------------------
(* Manifold input screen *)

\* The manifold forms tried; manifold_diameter is read only in manual mode
ManifoldForms ==
    {[manifold_length |-> 50, manifold_diameter |-> 12,
      num_90_elbows |-> 2, num_45_elbows |-> 0, num_30_elbows |-> 0,
      num_lateral_tees |-> 0, additional_k_manifold |-> 0],
     [manifold_length |-> 50, manifold_diameter |-> 6,
      num_90_elbows |-> 2, num_45_elbows |-> 0, num_30_elbows |-> 0,
      num_lateral_tees |-> 0, additional_k_manifold |-> 0],
     [manifold_length |-> 500, manifold_diameter |-> 36,
      num_90_elbows |-> 20, num_45_elbows |-> 20, num_30_elbows |-> 20,
      num_lateral_tees |-> 20, additional_k_manifold |-> 1000]}

k_total_manifold(f) ==
    f.num_90_elbows * K_VALUES.elbow90
    + f.num_45_elbows * K_VALUES.elbow45
    + f.num_30_elbows * K_VALUES.elbow30
    + f.num_lateral_tees * K_VALUES.lateral_tee
    + K_VALUES.entry_flush
    + K_VALUES.exit
    + f.additional_k_manifold

\* Variant: the largest dryer airflow in place of the sum
total_cfm_max(list) == SeqMax([i \in 1..Len(list) |-> list[i].cfm])

\* total_cfm = sum(d['cfm'] for d in st.session_state.dryers)
total_cfm_of(list) == SeqSum([i \in 1..Len(list) |-> list[i].cfm])

\* Variant: the connector losses summed
worst_connector_dp_sum(list) ==
    SeqSum([i \in 1..Len(list) |-> list[i].connector_dp])

\* max(d['connector_dp'] for d in st.session_state.dryers)
worst_connector_dp_of(list) ==
    SeqMax([i \in 1..Len(list) |-> list[i].connector_dp])

\* "Optimize or use specified diameter": <<diameter, velocity, dp>>
manifold_sizing(total_cfm, f, optimize_diameter) ==
    IF optimize_diameter
    THEN optimize_manifold_diameter(total_cfm, f.manifold_length,
                                    k_total_manifold(f), MANIFOLD_MAX_DP)
    ELSE LET velocity == calculate_velocity(total_cfm, f.manifold_diameter)
         IN  <<f.manifold_diameter, velocity,
               calculate_duct_pressure_loss_default(
                   f.manifold_length, f.manifold_diameter, velocity,
                   k_total_manifold(f))>>

\* total_system_dp = worst_connector_dp + dp
total_system_dp_of(list, dp) == worst_connector_dp_of(list) + dp

\* Variant: the fan selected on the manifold loss alone, the stored total
\* unchanged
results_of_select_on_manifold_dp(list, total_cfm, f, sized) ==
    LET worst_connector_dp == worst_connector_dp_of(list)
        total_system_dp    == total_system_dp_of(list, sized[3])
        suitable_fans      == select_def_fan(total_cfm, sized[3])
    IN  [set                |-> TRUE,
         total_cfm          |-> total_cfm,
         worst_connector_dp |-> worst_connector_dp,
         manifold_dp        |-> sized[3],
         manifold_velocity  |-> sized[2],
         manifold_total_k   |-> k_total_manifold(f),
         total_system_dp    |-> total_system_dp,
         suitable_fans      |-> suitable_fans,
         selected_fan       |-> selected_fan_of(suitable_fans)]

\* st.session_state.calculation_results = {...}
results_of(list, total_cfm, f, sized) ==
    LET worst_connector_dp == worst_connector_dp_of(list)
        total_system_dp    == total_system_dp_of(list, sized[3])
        suitable_fans      == select_def_fan(total_cfm, total_system_dp)
    IN  [set                |-> TRUE,
         total_cfm          |-> total_cfm,
         worst_connector_dp |-> worst_connector_dp,
         manifold_dp        |-> sized[3],
         manifold_velocity  |-> sized[2],
         manifold_total_k   |-> k_total_manifold(f),
         total_system_dp    |-> total_system_dp,
         suitable_fans      |-> suitable_fans,
         selected_fan       |-> selected_fan_of(suitable_fans)]

SubmitManifold ==
    /\ step = "manifold_input"
    /\ \E f \in ManifoldForms, optimize_diameter \in BOOLEAN :
        LET total_cfm == total_cfm_of(dryers)
            sized     == manifold_sizing(total_cfm, f, optimize_diameter)
        IN  /\ manifold_info' =
                   [set              |-> TRUE,
                    length           |-> f.manifold_length,
                    diameter         |-> sized[1],
                    optimize         |-> optimize_diameter,
                    fittings_summary |-> fittings_summary(f),
                    additional_k     |-> f.additional_k_manifold,
                    total_k          |-> k_total_manifold(f)]
            /\ IF dryers = <<>>
               THEN \* max() of an empty sequence raises ValueError
                    /\ report' = [doc |-> "manifold_form", raised |-> "ValueError"]
                    /\ UNCHANGED <<calculation_results, step>>
               ELSE /\ calculation_results' =
                           results_of(dryers, total_cfm, f, sized)
                    /\ step' = "results"
                    /\ report' = None
    /\ UNCHANGED <<project_info, dryers, call>>

\* Variant: no way back to the dryers once results were calculated
BackToDryerInput_before_results ==
    /\ step = "manifold_input"
    /\ ~calculation_results.set
    /\ step' = "dryer_input"
    /\ report' = None
    /\ UNCHANGED <<project_info, dryers, manifold_info, calculation_results, call>>

BackToDryerInput ==
    /\ step = "manifold_input"
    /\ step' = "dryer_input"
    /\ report' = None
    /\ UNCHANGED <<project_info, dryers, manifold_info, calculation_results, call>>

-----------------------------------------------------------------------------
(* Results screen and report generators *)

\* dict.get(key, default) on results: the default only when the key is absent
results_get_selected_fan(results) ==
    IF results.set THEN results.selected_fan ELSE EmptyDict

\* What show_results_screen displays for the current session
show_results_screen ==
    LET results == calculation_results
    IN  IF ~results.set
        THEN [raised |-> "KeyError"]
        ELSE [raised            |-> NoException,
              connector_warning |-> results.worst_connector_dp > DRYER_CONNECTOR_MAX_DP,
              manifold_error    |-> results.manifold_dp > MANIFOLD_MAX_DP,
              fan_section       |-> IF results.selected_fan # None
                                    THEN results.selected_fan.model
                                    ELSE "No suitable DEF fan found"]

\* generate_pdf_report(project_info, dryers, manifold_info, results)
generate_pdf_report(results) ==
    [doc              |-> "pdf",
     raised           |-> NoException,
     recommended_fan  |-> IF results.selected_fan # None
                          THEN results.selected_fan.model ELSE "Contact Us",
     fan_selection    |-> results.selected_fan # None,
     within_limit_text  |-> TRUE,
     connector_warning  |-> results.worst_connector_dp > DRYER_CONNECTOR_MAX_DP,
     manifold_warning   |-> results.manifold_dp > MANIFOLD_MAX_DP,
     all_within_limits  |-> /\ results.manifold_dp <= MANIFOLD_MAX_DP
                            /\ results.worst_connector_dp <= DRYER_CONNECTOR_MAX_DP]

\* generate_csi_specification(project_info, dryers, manifold_info, results):
\* results.get('selected_fan', {}).get('model', 'XX') calls .get on the stored
\* value, and None has no .get
generate_csi_specification(results) ==
    LET selected == results_get_selected_fan(results)
    IN  IF selected = None
        THEN [doc |-> "csi", raised |-> "AttributeError"]
        ELSE [doc       |-> "csi",
              raised    |-> NoException,
              fan_model |-> IF selected = EmptyDict THEN "DEFXX"
                            ELSE selected.model]

GeneratePdf ==
    /\ step = "results"
    /\ report' = generate_pdf_report(calculation_results)
    /\ UNCHANGED <<step, project_info, dryers, manifold_info,
                   calculation_results, call>>

GenerateCsi ==
    /\ step = "results"
    /\ report' = generate_csi_specification(calculation_results)
    /\ UNCHANGED <<step, project_info, dryers, manifold_info,
                   calculation_results, call>>

\* The run that drew the results page reached the navigation buttons below
\* the report buttons: an exception raised by a report generator ends the run
\* before them, and the next run (any button drawn before it) draws the page
\* anew
results_page_complete ==
    IF report = None THEN TRUE ELSE report.raised = NoException

\* Variant: the results screen's Back button leads to the dryer screen
BackToManifold_to_dryer_input ==
    /\ step = "results"
    /\ results_page_complete
    /\ step' = "dryer_input"
    /\ report' = None
    /\ UNCHANGED <<project_info, dryers, manifold_info, calculation_results, call>>

BackToManifold ==
    /\ step = "results"
    /\ results_page_complete
    /\ step' = "manifold_input"
    /\ report' = None
    /\ UNCHANGED <<project_info, dryers, manifold_info, calculation_results, call>>

StartNewProject ==
    /\ step = "results"
    /\ results_page_complete
    /\ session_state_clear
    /\ UNCHANGED call

-----------------------------------------------------------------------------
(* The wizard *)

Idle == [fn |-> "idle"]

Init == InitSession /\ call = Idle

Next ==
    \/ StartOver
    \/ WelcomeNext
    \/ SubmitProjectInfo
    \/ RemoveDryer
    \/ AddDryers
    \/ BackToProjectInfo
    \/ ContinueToManifold
    \/ SubmitManifold
    \/ BackToDryerInput
    \/ GeneratePdf
    \/ GenerateCsi
    \/ BackToManifold
    \/ StartNewProject

Spec == Init /\ [][Next]_vars

-----------------------------------------------------------------------------
(* The engine functions on their own: a call is drawn, then it returns *)

VelocityCfm == {0, 200, 2000, 6000}
VelocityDiameters == {-12, -4, -1, 0, 1, 4, 12, 36}

VelocityCalls ==
    [fn : {"calculate_velocity"}, pc : {"called"},
     cfm : VelocityCfm, diameter : VelocityDiameters]

LossLengths == {0, 10, 50}
LossDiameters == {-4, 0, 4, 12}
LossVelocities == {0, 10000, 22918}
LossKSums == {150, 275}
LossDensities == {AIR_DENSITY, 750}

\* rho_passed = FALSE is the call that leaves rho to its default
LossCalls ==
    {c \in [fn : {"calculate_duct_pressure_loss"}, pc : {"called"},
            length : LossLengths, diameter : LossDiameters,
            velocity : LossVelocities, k_sum : LossKSums,
            rho : LossDensities, rho_passed : BOOLEAN] :
        c.rho_passed \/ c.rho = AIR_DENSITY}

OptimizeCfm == {200, 2000, 6000}
OptimizeLengths == {10, 50}
OptimizeKSums == {150, 300}
OptimizeMaxDp == {1000, 2500, MANIFOLD_MAX_DP}

OptimizeCalls ==
    [fn : {"optimize_manifold_diameter"}, pc : {"called"},
     total_cfm : OptimizeCfm, length : OptimizeLengths,
     k_sum : OptimizeKSums, max_dp : OptimizeMaxDp]

SelectCfm == {50, 200, 500, 1500, 1850, 2000, 4000, 6000}
SelectSp == {-1000, 0, 1250, 6000, 10000, 10001, 17500, 20000, 20001, 25000}

SelectCalls ==
    [fn : {"select_def_fan"}, pc : {"called"},
     required_cfm : SelectCfm, required_sp : SelectSp]

InitEngine ==
    /\ InitSession
    /\ \/ call \in VelocityCalls
       \/ call \in LossCalls
       \/ call \in OptimizeCalls
       \/ call \in SelectCalls

Called(fn) == call.fn = fn /\ call.pc = "called"
Returned(fn) == call.fn = fn /\ call.pc = "returned"

ReturnVelocity ==
    /\ Called("calculate_velocity")
    /\ call' = [fn |-> call.fn, pc |-> "returned",
                cfm |-> call.cfm, diameter |-> call.diameter,
                ret |-> calculate_velocity(call.cfm, call.diameter)]
    /\ UNCHANGED session

ReturnPressureLoss ==
    /\ Called("calculate_duct_pressure_loss")
    /\ LET rho == IF call.rho_passed THEN call.rho ELSE AIR_DENSITY
           run == calculate_duct_pressure_loss_run(
                      call.length, call.diameter, call.velocity, call.k_sum, rho)
           ret == IF call.rho_passed
                  THEN calculate_duct_pressure_loss(
                           call.length, call.diameter, call.velocity,
                           call.k_sum, call.rho)
                  ELSE calculate_duct_pressure_loss_default(
                           call.length, call.diameter, call.velocity,
                           call.k_sum)
       IN  call' = [fn |-> call.fn, pc |-> "returned",
                    length |-> call.length, diameter |-> call.diameter,
                    velocity |-> call.velocity, k_sum |-> call.k_sum,
                    rho |-> call.rho, rho_passed |-> call.rho_passed,
                    ret |-> ret, divided |-> run.divided,
                    raised |-> run.raised]
    /\ UNCHANGED session

ReturnOptimize ==
    /\ Called("optimize_manifold_diameter")
    /\ call' = [fn |-> call.fn, pc |-> "returned",
                total_cfm |-> call.total_cfm, length |-> call.length,
                k_sum |-> call.k_sum, max_dp |-> call.max_dp,
                ret |-> optimize_manifold_diameter(
                            call.total_cfm, call.length, call.k_sum,
                            call.max_dp)]
    /\ UNCHANGED session

\* select_def_fan and the caller's 'selected_fan' entry
ReturnSelect ==
    /\ Called("select_def_fan")
    /\ LET suitable_fans == select_def_fan(call.required_cfm, call.required_sp)
       IN  call' = [fn |-> call.fn, pc |-> "returned",
                    required_cfm |-> call.required_cfm,
                    required_sp |-> call.required_sp,
                    ret |-> suitable_fans,
                    interpolated |-> interpolated_fans(call.required_sp),
                    selected_fan |-> selected_fan_of(suitable_fans)]
    /\ UNCHANGED session

NextEngine ==
    \/ ReturnVelocity
    \/ ReturnPressureLoss
    \/ ReturnOptimize
    \/ ReturnSelect

SpecEngine == InitEngine /\ [][NextEngine]_vars

-----------------------------------------------------------------------------
(* Properties *)

StandardSet == {standard_diameters[i] : i \in DOMAIN standard_diameters}

\* The manifold loss of a call's duct at diameter d
LossAt(total_cfm, length, k_sum, d) ==
    calculate_duct_pressure_loss_default(
        length, d, calculate_velocity(total_cfm, d), k_sum)

ConnectorSum == SeqSum([i \in 1..Len(dryers) |-> dryers[i].connector_dp])

\* C1: at the results step the stored total_system_dp is the largest
\* connector_dp among the dryers plus the manifold loss; with two or more
\* dryers of positive loss it is not the sum of the connector losses plus the
\* manifold loss.
C1_TotalIsWorstPlusManifold ==
    step = "results" =>
        LET r == calculation_results
        IN  /\ \E i \in 1..Len(dryers) :
                   r.total_system_dp = dryers[i].connector_dp + r.manifold_dp
            /\ \A i \in 1..Len(dryers) :
                   r.total_system_dp >= dryers[i].connector_dp + r.manifold_dp
            /\ (/\ Len(dryers) >= 2
                /\ \A i \in 1..Len(dryers) : dryers[i].connector_dp > 0)
               => r.total_system_dp # ConnectorSum + r.manifold_dp

C1_Witness ==
    /\ step = "results"
    /\ Len(dryers) >= 2
    /\ \A i \in 1..Len(dryers) : dryers[i].connector_dp > 0
    /\ dryers[1].connector_dp # dryers[2].connector_dp
    /\ calculation_results.manifold_dp > 0

\* C2: optimize_manifold_diameter returns a member of the standard set
\* {4,...,36} with its velocity and loss: the smallest member whose loss is
\* <= max_dp, or 36 when no member is within max_dp; for 2000 CFM, 50 ft,
\* k 3.0 and max_dp 1.0 the result is within 1.0 and every smaller standard
\* diameter is above 1.0.
C2_OptimizerSmallestFit ==
    Returned("optimize_manifold_diameter") =>
        LET d      == call.ret[1]
            loss(x) == LossAt(call.total_cfm, call.length, call.k_sum, x)
            Fit    == {x \in StandardSet : loss(x) <= call.max_dp}
        IN  /\ StandardSet = {4, 5, 6, 7, 8, 9, 10, 12, 14, 16, 18, 20, 22,
                              24, 26, 28, 30, 32, 34, 36}
            /\ d \in StandardSet
            /\ call.ret[2] = calculate_velocity(call.total_cfm, d)
            /\ call.ret[3] = loss(d)
            /\ IF Fit # {}
               THEN d \in Fit /\ \A x \in Fit : d <= x
               ELSE d = 36
            /\ (/\ call.total_cfm = 2000 /\ call.length = 50
                /\ call.k_sum = 300 /\ call.max_dp = 10000)
               => /\ loss(d) <= 10000
                  /\ \A x \in StandardSet : x < d => loss(x) > 10000

C2_Witness ==
    /\ Returned("optimize_manifold_diameter")
    /\ call.total_cfm = 2000 /\ call.length = 50
    /\ call.k_sum = 300 /\ call.max_dp = 10000
    /\ call.ret[1] = 14

\* C3: every entry select_def_fan returns carries the fan's curve
\* interpolated at required_sp as available_cfm, and that airflow is at
\* least required_cfm; a fan whose interpolated airflow is below required_cfm
\* is not in the list.
C3_ReturnedFansDeliver ==
    Returned("select_def_fan") =>
        /\ \A i \in 1..Len(call.ret) :
               LET e == call.ret[i]
                   curve == DEF_FAN_CURVES[e.model]
               IN  /\ e.available_cfm
                        = np_interp(call.required_sp, curve.SP, curve.CFM)
                   /\ e.available_cfm >= call.required_cfm * Scale4
        /\ \A m \in DOMAIN DEF_FAN_CURVES :
               np_interp(call.required_sp, DEF_FAN_CURVES[m].SP,
                         DEF_FAN_CURVES[m].CFM) < call.required_cfm * Scale4
               => \A i \in 1..Len(call.ret) : call.ret[i].model # m

C3_Witness ==
    /\ Returned("select_def_fan")
    /\ call.required_cfm = 500 /\ call.required_sp = 6000
    /\ Len(call.ret) > 0
    /\ \A i \in 1..Len(call.ret) : call.ret[i].model # "DEF04"

\* The distance of an entry's margin from 17.5 percent
MarginDistance(e) == Abs(e.margin - 175000)

\* C4: the returned list is in non-decreasing order of |margin - 17.5|, with
\* margin = (available_cfm - required_cfm) / required_cfm * 100, and the
\* stored selected fan is the first entry, the one closest to 17.5 percent.
C4_SortedByMarginDistance ==
    Returned("select_def_fan") =>
        /\ \A i \in 1..Len(call.ret) :
               call.ret[i].margin
                 = MulDiv(call.ret[i].available_cfm
                            - call.required_cfm * Scale4,
                          100, call.required_cfm)
        /\ \A i \in 1..(Len(call.ret) - 1) :
               MarginDistance(call.ret[i]) <= MarginDistance(call.ret[i + 1])
        /\ call.ret # <<>> =>
               /\ call.selected_fan = call.ret[1]
               /\ \A i \in 1..Len(call.ret) :
                      MarginDistance(call.selected_fan)
                        <= MarginDistance(call.ret[i])

C4_Witness ==
    /\ Returned("select_def_fan")
    /\ Len(call.ret) >= 2
    /\ call.selected_fan.model = "DEF025"
    /\ \E i \in 1..Len(call.ret) : call.ret[i].model = "DEF015"

\* A fan qualifies: required_sp is not above its last sample and its curve
\* at required_sp delivers required_cfm
Qualifies(m, required_cfm, required_sp) ==
    LET curve == DEF_FAN_CURVES[m]
    IN  /\ required_sp <= curve.SP[Len(curve.SP)]
        /\ np_interp(required_sp, curve.SP, curve.CFM) >= required_cfm * Scale4

\* C5: when no catalog fan qualifies select_def_fan returns the empty list
\* and the stored selected_fan is None; for required_cfm = 6000 the list is
\* empty at every required_sp.
C5_NoFanIsEmptyList ==
    Returned("select_def_fan") =>
        /\ (\A m \in DOMAIN DEF_FAN_CURVES :
                ~Qualifies(m, call.required_cfm, call.required_sp))
           => call.ret = <<>>
        /\ call.ret = <<>> => call.selected_fan = None
        /\ call.required_cfm = 6000 => call.ret = <<>>

C5_Witness ==
    /\ Returned("select_def_fan")
    /\ call.required_cfm = 6000
    /\ call.required_sp = 0
    /\ call.ret = <<>>
    /\ call.selected_fan = None

\* C6: with selected_fan None in the results, the results screen and each
\* report generated from the results complete without raising.
C6_NoFanNeverRaises ==
    (step = "results" /\ calculation_results.selected_fan = None) =>
        /\ show_results_screen.raised = NoException
        /\ report # None => report.raised = NoException

\* C7: calculate_velocity returns 0 for every diameter <= 0.
C7_VelocityZeroForNonPositive ==
    (Returned("calculate_velocity") /\ call.diameter <= 0) => call.ret = 0

\* C8: calculate_duct_pressure_loss returns 0 for every diameter <= 0,
\* whatever the other arguments, without reaching the division by the
\* diameter and without raising.
C8_LossZeroForNonPositive ==
    (Returned("calculate_duct_pressure_loss") /\ call.diameter <= 0) =>
        /\ ~call.divided
        /\ call.raised = NoException
        /\ call.ret = 0

C8_Witness ==
    /\ Returned("calculate_duct_pressure_loss")
    /\ call.diameter = 0
    /\ call.length > 0 /\ call.velocity > 0
    /\ call.ret = 0

\* The dryer of the scenario: 200 CFM, 4 in outlet, 10 ft connector, two
\* 90-degree elbows and one lateral tee
IsScenarioDryer(d) ==
    /\ d.cfm = 200 /\ d.outlet_diameter = 4 /\ d.connector_length = 10
    /\ d.additional_k = 0
    /\ d.connector_fittings_summary
         = <<[count |-> 2, fitting |-> "90 Elbow"],
             [count |-> 1, fitting |-> "Lateral Tee"],
             [count |-> 1, fitting |-> "Entry + Exit"]>>

OneDryerScenario == Len(dryers) = 1 /\ IsScenarioDryer(dryers[1])

\* C9 as stated: in the one-dryer scenario the k-sum is 2.75, the connector
\* loss is about 0.226 IN WC, below 0.25, and the results screen shows no
\* connector warning.
C9_LossAboutPoint226 ==
    OneDryerScenario =>
        /\ dryers[1].total_k = 275
        /\ dryers[1].connector_dp >= 2255 /\ dryers[1].connector_dp <= 2265
        /\ dryers[1].connector_dp < DRYER_CONNECTOR_MAX_DP
        /\ step = "results" => ~show_results_screen.connector_warning

\* C9 amended: in the one-dryer scenario the k-sum is 3.25 (2 x 0.5 + 0.75
\* + 0.5 + 1.0), the velocity about 2292 FPM and the connector loss about
\* 1.255 IN WC, above 0.25, and the results screen shows the connector
\* warning.
C9_LossAbout1Point255 ==
    OneDryerScenario =>
        /\ dryers[1].total_k = 325
        /\ dryers[1].connector_velocity >= 22915
        /\ dryers[1].connector_velocity <= 22925
        /\ dryers[1].connector_dp >= 12540 /\ dryers[1].connector_dp <= 12560
        /\ dryers[1].connector_dp > DRYER_CONNECTOR_MAX_DP
        /\ step = "results" =>
               /\ calculation_results.worst_connector_dp
                    = dryers[1].connector_dp
               /\ show_results_screen.connector_warning

C9_Witness ==
    /\ OneDryerScenario
    /\ step = "results"
    /\ show_results_screen.connector_warning

\* (0.35 * length / diameter + k_sum) * rho * (velocity / 1096.2)^2 with the
\* factors taken in another order: (35 L + k D) rho (V^2 / 10962) / 10962 /
\* (100 D), in 1/10000 IN WC
FormulaLoss(length, diameter, velocity, k_sum, rho) ==
    MulDiv((35 * length + k_sum * diameter) * rho,
           MulDiv(velocity, velocity, 10962), 10962) \div (100 * diameter)

\* C10: for diameter > 0 the returned loss is
\* (0.35 * length / diameter + k_sum) * rho * (velocity / 1096.2)^2, up to
\* the rounding of the fixed-point steps (1/10000 IN WC plus 0.01 percent),
\* and rho is 0.0696 when it is not passed.
C10_LossFormula ==
    (Returned("calculate_duct_pressure_loss") /\ call.diameter > 0) =>
        LET rho     == IF call.rho_passed THEN call.rho ELSE 696
            formula == FormulaLoss(call.length, call.diameter, call.velocity,
                                   call.k_sum, rho)
        IN  /\ call.divided
            /\ Abs(call.ret - formula) <= 1 + formula \div 10000

C10_Witness ==
    /\ Returned("calculate_duct_pressure_loss")
    /\ call.diameter = 4 /\ call.length = 10 /\ call.velocity = 22918
    /\ call.k_sum = 275 /\ ~call.rho_passed
    /\ call.ret > 11000

\* The lengths (ft), k-sums (1/100) and velocities (1/10 FPM) a returned loss
\* is compared against
MonotoneLengths == 0..100
MonotoneKSums == {25 * i : i \in 0..60}
MonotoneVelocities == {500 * i : i \in 0..80}

\* C11: for diameter > 0 the loss is non-decreasing in length, in k_sum and
\* in velocity, each with the other arguments held fixed: a longer duct, a
\* larger k-sum or a higher velocity never returns a smaller loss, and a
\* shorter, smaller or lower one never returns a larger loss.
C11_LossMonotone ==
    (Returned("calculate_duct_pressure_loss") /\ call.diameter > 0) =>
        LET rho == IF call.rho_passed THEN call.rho ELSE AIR_DENSITY
            loss(l, v, k) ==
                calculate_duct_pressure_loss(l, call.diameter, v, k, rho)
        IN  /\ \A l \in MonotoneLengths :
                   LET other == loss(l, call.velocity, call.k_sum)
                   IN  IF l >= call.length THEN other >= call.ret
                       ELSE other <= call.ret
            /\ \A k \in MonotoneKSums :
                   LET other == loss(call.length, call.velocity, k)
                   IN  IF k >= call.k_sum THEN other >= call.ret
                       ELSE other <= call.ret
            /\ \A v \in MonotoneVelocities :
                   LET other == loss(call.length, v, call.k_sum)
                   IN  IF v >= call.velocity THEN other >= call.ret
                       ELSE other <= call.ret

C11_Witness ==
    /\ Returned("calculate_duct_pressure_loss")
    /\ call.diameter = 4 /\ call.length = 10 /\ call.velocity = 10000
    /\ call.k_sum = 150 /\ call.rho_passed
    /\ call.ret > 0
    /\ calculate_duct_pressure_loss(50, 4, 10000, 150, call.rho) > call.ret
    /\ calculate_duct_pressure_loss(10, 4, 10000, 275, call.rho) > call.ret
    /\ calculate_duct_pressure_loss(10, 4, 22918, 150, call.rho) > call.ret
    /\ calculate_duct_pressure_loss(0, 4, 10000, 150, call.rho) < call.ret

RECURSIVE SeqMin(_)
SeqMin(s) ==
    IF Len(s) = 1 THEN s[1]
    ELSE LET m == SeqMin(Tail(s)) IN IF s[1] <= m THEN s[1] ELSE m

\* required_sp lies in the sampled pressure range of fan m
InSampledRange(m, required_sp) ==
    /\ SeqMin(DEF_FAN_CURVES[m].SP) <= required_sp
    /\ required_sp <= SeqMax(DEF_FAN_CURVES[m].SP)

\* C12: select_def_fan interpolates a fan's curve, and returns the fan, only
\* when required_sp lies in the curve's sampled range [min SP, max SP]; no
\* curve is interpolated for a required_sp above its largest or below its
\* smallest sample.
C12_InterpolatesOnlyWithinRange ==
    Returned("select_def_fan") =>
        /\ \A m \in call.interpolated : InSampledRange(m, call.required_sp)
        /\ \A i \in 1..Len(call.ret) :
               InSampledRange(call.ret[i].model, call.required_sp)

\* available (1/10000 CFM) lies on the segment through samples j and j + 1 of
\* the curve at pressure x: (available - cfm_j) (sp_j+1 - sp_j)
\* = (cfm_j+1 - cfm_j) (x - sp_j), both sides divided by 100 (the sampled
\* pressures are multiples of 0.01 IN WC)
OnSegment(curve, j, x, available) ==
    (available - curve.CFM[j] * Scale4) * ((curve.SP[j + 1] - curve.SP[j]) \div 100)
      = (curve.CFM[j + 1] - curve.CFM[j]) * (x - curve.SP[j]) * (Scale4 \div 100)

Between(lo, x, hi) == (lo <= x /\ x <= hi) \/ (hi <= x /\ x <= lo)

\* C13: for a required_sp inside a returned fan's sampled range, the entry's
\* available_cfm is the linear interpolation between the two adjacent samples
\* around required_sp: it is on the segment through them, between their
\* airflows, and equal to a sample's airflow at that sample's pressure.
C13_LinearBetweenSamples ==
    Returned("select_def_fan") =>
        \A i \in 1..Len(call.ret) :
            LET e     == call.ret[i]
                curve == DEF_FAN_CURVES[e.model]
                x     == call.required_sp
            IN  InSampledRange(e.model, x) =>
                    /\ \E j \in 1..(Len(curve.SP) - 1) :
                           curve.SP[j] <= x /\ x <= curve.SP[j + 1]
                    /\ \A j \in 1..(Len(curve.SP) - 1) :
                           (curve.SP[j] <= x /\ x <= curve.SP[j + 1]) =>
                               /\ OnSegment(curve, j, x, e.available_cfm)
                               /\ Between(curve.CFM[j + 1] * Scale4,
                                          e.available_cfm,
                                          curve.CFM[j] * Scale4)
                    /\ \A j \in 1..Len(curve.SP) :
                           x = curve.SP[j] =>
                               e.available_cfm = curve.CFM[j] * Scale4

C13_Witness ==
    /\ Returned("select_def_fan")
    /\ call.required_sp = 1250
    /\ \E i \in 1..Len(call.ret) :
           /\ call.ret[i].model = "DEF04"
           /\ call.ret[i].available_cfm = 515 * Scale4

\* C14: for required_cfm = 1500 and required_sp = 0.6, DEF015 is among the
\* returned candidates with available_cfm about 1664 (between 1700 at SP 0.5
\* and 1610 at SP 0.75) and margin about 10.9 percent.
C14_Def015At1500And06 ==
    (/\ Returned("select_def_fan")
     /\ call.required_cfm = 1500
     /\ call.required_sp = 6000) =>
        /\ DEF_FAN_CURVES["DEF015"].SP[3] = 5000
        /\ DEF_FAN_CURVES["DEF015"].CFM[3] = 1700
        /\ DEF_FAN_CURVES["DEF015"].SP[4] = 7500
        /\ DEF_FAN_CURVES["DEF015"].CFM[4] = 1610
        /\ \E i \in 1..Len(call.ret) :
               LET e == call.ret[i]
               IN  /\ e.model = "DEF015"
                   /\ e.available_cfm >= 16635000
                   /\ e.available_cfm <= 16645000
                   /\ e.margin >= 108500
                   /\ e.margin <= 109500

C14_Witness ==
    /\ Returned("select_def_fan")
    /\ call.required_cfm = 1500
    /\ call.required_sp = 6000
    /\ \E i \in 1..Len(call.ret) : call.ret[i].model = "DEF015"

C16_SelectorGetsTotals ==
    step = "results" =>
        LET r   == calculation_results
            sum == SeqSum([i \in 1..Len(dryers) |-> dryers[i].cfm])
        IN  /\ r.total_cfm = sum
            /\ r.total_system_dp = r.worst_connector_dp + r.manifold_dp
            /\ r.suitable_fans
                 = select_def_fan(sum, r.worst_connector_dp + r.manifold_dp)

C16_Witness ==
    /\ step = "results"
    /\ Len(dryers) = 2
    /\ dryers[1].cfm # dryers[2].cfm
    /\ calculation_results.total_cfm = 3200

\* C17: whatever dryers were added (with any copy count) and removed and
\* however the wizard was navigated, the dryers list holds at most the
\* maximum number of dryers, the wizard is at the manifold or results step
\* only with at least one dryer in the list, and stored results were
\* calculated for at least one dryer (no max() over an empty list).
C17_DryerCountWithinLimits ==
    /\ Len(dryers) <= MaxDryers
    /\ step \in {"manifold_input", "results"} => Len(dryers) >= 1
    /\ calculation_results.set => calculation_results.total_cfm > 0
    /\ report # None => report.raised # "ValueError"

C17_Witness ==
    /\ step = "dryer_input"
    /\ calculation_results.set
    /\ Len(dryers) = MaxDryers
    /\ dryers[1] # dryers[MaxDryers]

\* C18: the stored connector losses, manifold diameter, manifold loss, total
\* and fan selection are determined by the dryer and manifold inputs alone,
\* every loss computed at density 0.0696: nothing in them depends on
\* project_info, so sessions that differ only there (zip, city, state,
\* elevation, a failed lookup included) store the same values.
C18_ElevationNotUsed ==
    /\ \A i \in 1..Len(dryers) :
           LET d == dryers[i]
           IN  /\ d.connector_velocity
                    = calculate_velocity(d.cfm, d.outlet_diameter)
               /\ d.connector_dp
                    = calculate_duct_pressure_loss(
                          d.connector_length, d.outlet_diameter,
                          d.connector_velocity, d.total_k, 696)
    /\ step = "results" =>
           LET r == calculation_results
               m == manifold_info
           IN  /\ m.optimize =>
                      m.diameter = optimize_manifold_diameter(
                                       r.total_cfm, m.length, m.total_k,
                                       MANIFOLD_MAX_DP)[1]
               /\ r.manifold_velocity
                    = calculate_velocity(r.total_cfm, m.diameter)
               /\ r.manifold_dp
                    = calculate_duct_pressure_loss(
                          m.length, m.diameter, r.manifold_velocity,
                          m.total_k, 696)
               /\ r.total_system_dp
                    = worst_connector_dp_of(dryers) + r.manifold_dp
               /\ r.selected_fan
                    = selected_fan_of(select_def_fan(total_cfm_of(dryers),
                                                     r.total_system_dp))

C18_Witness ==
    /\ step = "results"
    /\ project_info.elevation = 5280
    /\ calculation_results.worst_connector_dp > 0
    /\ calculation_results.manifold_dp > 0
    /\ calculation_results.selected_fan # None

\* C19: when the stored manifold_dp is above MANIFOLD_MAX_DP the results
\* screen shows the manifold error, and a PDF report generated from the
\* results lists the manifold warning and does not state that the manifold
\* loss is within the limit.
C19_ManifoldViolationSurfaced ==
    (step = "results" /\ calculation_results.manifold_dp > MANIFOLD_MAX_DP) =>
        /\ show_results_screen.manifold_error
        /\ (report # None /\ report.doc = "pdf") =>
               /\ report.manifold_warning
               /\ ~report.within_limit_text

\* The results are complete: every entry stored, the fan selection included
FullResults(r) ==
    /\ r.set
    /\ r.total_system_dp = r.worst_connector_dp + r.manifold_dp
    /\ r.suitable_fans = select_def_fan(r.total_cfm, r.total_system_dp)
    /\ r.selected_fan = selected_fan_of(r.suitable_fans)

\* In every state: on the dryer screen with room left, adding one copy of any
\* form's dryer appends it, whatever its connector loss; at the results step
\* the results are complete.
NothingBlockedHere ==
    /\ (step = "dryer_input" /\ Len(dryers) < MaxDryers) =>
           \A f \in DryerForms :
               append_copies(dryers, dryer_obj(f),
                             Min(1, MaxDryers - Len(dryers)))
                 = Append(dryers, dryer_obj(f))
    /\ step = "results" => FullResults(calculation_results)

\* In every step: an add grows the list by a form's dryer, and a manifold
\* submission stores complete results and moves to the results step.
NothingBlockedNext ==
    /\ AddDryers =>
           /\ Len(dryers') > Len(dryers)
           /\ \E f \in DryerForms : dryers'[Len(dryers')] = dryer_obj(f)
    /\ SubmitManifold =>
           /\ step' = "results"
           /\ FullResults(calculation_results')
           /\ calculation_results'.total_cfm = total_cfm_of(dryers)
           /\ calculation_results'.worst_connector_dp
                = worst_connector_dp_of(dryers)

\* C20: a loss above its ceiling rejects nothing.  A dryer whose connector
\* loss is above 0.25 is still added, and a manifold submission with a worst
\* connector loss above 0.25 or a manifold loss above 1.0 still stores the
\* full results, fan selection included, and moves to the results step.
C20_ViolationNeverBlocks ==
    []NothingBlockedHere /\ [][NothingBlockedNext]_vars

C20_Witness ==
    /\ step = "results"
    /\ calculation_results.worst_connector_dp > DRYER_CONNECTOR_MAX_DP
    /\ calculation_results.manifold_dp > MANIFOLD_MAX_DP
    /\ \E i \in 1..Len(dryers) :
           dryers[i].connector_dp > DRYER_CONNECTOR_MAX_DP

\* The loss coefficient (1/100) of one fitting of a summary: the four fitting
\* types, and the entry (0.5) and exit (1.0) every segment carries once
FittingK(fitting) ==
    CASE fitting = "90 Elbow"     -> 50
      [] fitting = "45 Elbow"     -> 25
      [] fitting = "30 Elbow"     -> 15
      [] fitting = "Lateral Tee"  -> 75
      [] fitting = "Entry + Exit" -> 50 + 100

SummaryK(summary) ==
    SeqSum([i \in 1..Len(summary) |->
                summary[i].count * FittingK(summary[i].fitting)])

\* A segment's k-sum is the sum of count * K over its fittings, one entry and
\* one exit loss, and its additional coefficient; it is at least 1.5
SegmentKSum(total_k, summary, additional_k) ==
    /\ total_k = SummaryK(summary) + additional_k
    /\ summary[Len(summary)] = [count |-> 1, fitting |-> "Entry + Exit"]
    /\ \A i \in 1..(Len(summary) - 1) : summary[i].fitting # "Entry + Exit"
    /\ total_k >= 150

AllSegmentsKSum ==
    /\ \A i \in 1..Len(dryers) :
           SegmentKSum(dryers[i].total_k,
                       dryers[i].connector_fittings_summary,
                       dryers[i].additional_k)
    /\ manifold_info.set =>
           SegmentKSum(manifold_info.total_k, manifold_info.fittings_summary,
                       manifold_info.additional_k)

\* C21 as stated: every segment's k-sum is the fitting sum plus one entry and
\* one exit loss plus the additional coefficient, at least 1.5, and it is
\* 2.75 for two 90-degree elbows and one lateral tee with no additional loss.
C21_KSumTwoElbowsOneTee275 ==
    /\ AllSegmentsKSum
    /\ \A i \in 1..Len(dryers) :
           IsScenarioDryer(dryers[i]) => dryers[i].total_k = 275

\* C21 amended: the same, and for two 90-degree elbows and one lateral tee
\* with no additional loss the k-sum is 3.25 (2 x 0.5 + 0.75 + 0.5 + 1.0).
C21_KSumTwoElbowsOneTee325 ==
    /\ AllSegmentsKSum
    /\ \A i \in 1..Len(dryers) :
           IsScenarioDryer(dryers[i]) => dryers[i].total_k = 325

C21_Witness ==
    /\ manifold_info.set
    /\ manifold_info.additional_k > 0
    /\ \E i \in 1..Len(dryers) : IsScenarioDryer(dryers[i])
    /\ \E i \in 1..Len(dryers) : dryers[i].additional_k > 0

\* The pressures (1/10000 IN WC) an interpolated airflow is compared at:
\* below the first sample, 0 to 2.5 in steps of 0.025
ComparedSp == {-1000} \cup {250 * i : i \in 0..100}

\* C22: every catalog curve has as many SP samples as CFM samples, the SP
\* samples start at 0 and are strictly ascending, the CFM samples are
\* non-increasing; and a fan's interpolated airflow is non-increasing in
\* required_sp: at no higher pressure is it larger than the returned
\* available_cfm, at no lower pressure smaller.
C22_CatalogMonotone ==
    /\ DOMAIN DEF_FAN_CURVES = {FanModels[i] : i \in DOMAIN FanModels}
    /\ \A m \in DOMAIN DEF_FAN_CURVES :
           LET curve == DEF_FAN_CURVES[m]
           IN  /\ Len(curve.SP) = Len(curve.CFM)
               /\ curve.SP[1] = 0
               /\ \A i \in 1..(Len(curve.SP) - 1) :
                      /\ curve.SP[i] < curve.SP[i + 1]
                      /\ curve.CFM[i] >= curve.CFM[i + 1]
    /\ Returned("select_def_fan") =>
           \A i \in 1..Len(call.ret) :
               LET e     == call.ret[i]
                   curve == DEF_FAN_CURVES[e.model]
               IN  \A sp \in ComparedSp :
                       LET other == np_interp(sp, curve.SP, curve.CFM)
                       IN  IF sp >= call.required_sp
                           THEN other <= e.available_cfm
                           ELSE other >= e.available_cfm

C22_Witness ==
    /\ Returned("select_def_fan")
    /\ call.required_sp = 1250
    /\ \E i \in 1..Len(call.ret) :
           LET e     == call.ret[i]
               curve == DEF_FAN_CURVES[e.model]
           IN  /\ e.model = "DEF08"
               /\ np_interp(2500, curve.SP, curve.CFM) < e.available_cfm
               /\ np_interp(0, curve.SP, curve.CFM) > e.available_cfm

\* Every stored dryer carries the velocity and loss of its own inputs
DryersKeepOwnLoss ==
    \A i \in 1..Len(dryers) :
        LET d == dryers[i]
            velocity == calculate_velocity(d.cfm, d.outlet_diameter)
        IN  /\ d.connector_velocity = velocity
            /\ d.connector_dp
                 = calculate_duct_pressure_loss_default(
                       d.connector_length, d.outlet_diameter, velocity,
                       d.total_k)

\* after is before without its entry idx, the others in their order
RemovedExactly(before, after, idx) ==
    /\ Len(after) = Len(before) - 1
    /\ \A j \in 1..Len(after) :
           after[j] = IF j < idx THEN before[j] ELSE before[j + 1]

\* A step leaves the existing dryers as they are: the list is unchanged, or
\* grown at its end, or it lost exactly one entry on the dryer screen, or the
\* session was reset; away from the dryer screen (manifold submission,
\* reports, navigation) the list changes only by a reset.
DryersFrame ==
    /\ \/ dryers' = dryers
       \/ /\ step = "dryer_input"
          /\ Len(dryers') > Len(dryers)
          /\ SubSeq(dryers', 1, Len(dryers)) = dryers
       \/ /\ step = "dryer_input"
          /\ \E idx \in 1..Len(dryers) : RemovedExactly(dryers, dryers', idx)
       \/ /\ dryers' = <<>>
          /\ step' = "welcome"
          /\ ~project_info'.set
    /\ RemoveDryer =>
           \E idx \in 1..Len(dryers) : RemovedExactly(dryers, dryers', idx)
    /\ (SubmitManifold \/ GeneratePdf \/ GenerateCsi \/ BackToManifold
          \/ BackToDryerInput \/ ContinueToManifold \/ BackToProjectInfo
          \/ WelcomeNext \/ SubmitProjectInfo) => dryers' = dryers

\* C23: a dryer record is not changed once entered.  Adding dryers, removing
\* another dryer, navigating, submitting the manifold form and generating
\* reports leave every existing dryer's fields as they were; a removal
\* deletes exactly one entry and keeps the others in their order; only a
\* session reset discards the list; and each stored connector_dp is the loss
\* of that dryer's own cfm, outlet diameter, connector length and total_k.
C23_DryersImmutable ==
    []DryersKeepOwnLoss /\ [][DryersFrame]_vars

C23_Witness ==
    /\ step = "dryer_input"
    /\ Len(dryers) = 1
    /\ calculation_results.set
    /\ calculation_results.total_cfm > dryers[1].cfm
    /\ DryersKeepOwnLoss

(* C24 *)

\* What the user can do next in each wizard state
RecoveryOffered ==
    /\ ENABLED StartOver
    /\ step = "welcome" => ENABLED WelcomeNext
    /\ step = "project_info" => ENABLED SubmitProjectInfo
    /\ step = "results" =>
           /\ ENABLED GeneratePdf
           /\ results_page_complete => ENABLED BackToManifold
    /\ step = "manifold_input" =>
           /\ ENABLED BackToDryerInput
           /\ dryers # <<>>
    /\ step = "dryer_input" =>
           /\ ENABLED BackToProjectInfo
           /\ dryers # <<>> => ENABLED RemoveDryer /\ ENABLED ContinueToManifold
           /\ dryers = <<>> => Len(dryers) < MaxDryers

\* A submission lands on the results step with results calculated from the
\* inputs of that submission; a PDF click redraws the whole results page
RecoveryStep ==
    /\ GeneratePdf => results_page_complete'
    /\ BackToManifold => step' = "manifold_input" /\ dryers' = dryers
    /\ BackToDryerInput => step' = "dryer_input" /\ dryers' = dryers
    /\ SubmitManifold =>
           /\ step' = "results"
           /\ results_page_complete'
           /\ \E f \in ManifoldForms, optimize_diameter \in BOOLEAN :
                  /\ manifold_info'.length = f.manifold_length
                  /\ manifold_info'.optimize = optimize_diameter
                  /\ calculation_results' =
                         results_of(dryers', total_cfm_of(dryers'), f,
                                    manifold_sizing(total_cfm_of(dryers'), f,
                                                    optimize_diameter))

\* C24: no wizard state is a dead end: Start Over is always offered; the
\* results step offers Back to Manifold (after one PDF click when a report
\* generator had raised), the manifold step offers Back to Dryer Input with
\* a non-empty dryer list, the dryer step lets the list be changed and
\* continued, and every manifold submission reaches the results step with
\* the results recomputed from the inputs of that submission
C24_EveryErrorRecoverable == []RecoveryOffered /\ [][RecoveryStep]_vars

\* Back from a calculation on the dryer step, with the dryer list changed
C24_Witness ==
    /\ step = "dryer_input"
    /\ calculation_results.set
    /\ calculation_results.manifold_dp > MANIFOLD_MAX_DP
    /\ dryers # <<>>
    /\ total_cfm_of(dryers) # calculation_results.total_cfm

(* C25 *)

\* The loss of a returned optimizer call's duct at the i-th standard diameter
CallLossAt(i) ==
    LossAt(call.total_cfm, call.length, call.k_sum, standard_diameters[i])

\* C25: for every optimizer call with total_cfm > 0, length > 0 and
\* k_sum >= 0 the manifold loss does not increase from one standard diameter
\* to the next larger one; when the call returns a diameter whose loss is
\* within max_dp, every larger standard diameter is within max_dp too; and
\* the same call with a larger max_dp returns a diameter that is not larger
C25_FirstFitSound ==
    (/\ Returned("optimize_manifold_diameter")
     /\ call.total_cfm > 0 /\ call.length > 0 /\ call.k_sum >= 0) =>
        /\ \A i \in 1..(Len(standard_diameters) - 1) :
               CallLossAt(i + 1) <= CallLossAt(i)
        /\ call.ret[3] <= call.max_dp =>
               \A d \in StandardSet :
                   d > call.ret[1] =>
                       LossAt(call.total_cfm, call.length, call.k_sum, d)
                           <= call.max_dp
        /\ \A m \in OptimizeMaxDp :
               m >= call.max_dp =>
                   optimize_manifold_diameter(call.total_cfm, call.length,
                                              call.k_sum, m)[1]
                       <= call.ret[1]

\* A call answered from the middle of the list, which a larger max_dp
\* answers with a strictly smaller diameter
C25_Witness ==
    /\ Returned("optimize_manifold_diameter")
    /\ call.total_cfm > 0 /\ call.length > 0
    /\ call.ret[3] <= call.max_dp
    /\ call.ret[1] > standard_diameters[1]
    /\ call.ret[1] < standard_diameters[Len(standard_diameters)]
    /\ \E m \in OptimizeMaxDp :
           /\ m > call.max_dp
           /\ optimize_manifold_diameter(call.total_cfm, call.length,
                                         call.k_sum, m)[1] < call.ret[1]

(* C26 *)

\* The stored results restated from the session's current inputs
ResultsMatchInputs ==
    /\ calculation_results.set
    /\ manifold_info.set
    /\ dryers # <<>>
    /\ calculation_results.total_cfm = total_cfm_of(dryers)
    /\ \A i \in 1..Len(dryers) :
           dryers[i].connector_dp <= calculation_results.worst_connector_dp
    /\ \E i \in 1..Len(dryers) :
           dryers[i].connector_dp = calculation_results.worst_connector_dp
    /\ calculation_results.manifold_velocity =
           calculate_velocity(total_cfm_of(dryers), manifold_info.diameter)
    /\ calculation_results.manifold_dp =
           calculate_duct_pressure_loss_default(
               manifold_info.length, manifold_info.diameter,
               calculate_velocity(total_cfm_of(dryers),
                                  manifold_info.diameter),
               manifold_info.total_k)

\* C26: at the results step the stored total_cfm is the sum of the current
\* dryers' cfm, the stored worst_connector_dp is the largest connector_dp of
\* the current dryers, and the stored manifold velocity and loss are those of
\* the diameter, length and k-sum in manifold_info for that flow; no step
\* that changes the dryer list or the manifold record ends at the results
\* step without storing results in the same step
C26_ResultsNeverStale ==
    /\ [](step = "results" => ResultsMatchInputs)
    /\ [][(step' = "results" /\ ~SubmitManifold) =>
              /\ step = "results"
              /\ dryers' = dryers
              /\ manifold_info' = manifold_info
              /\ calculation_results' = calculation_results]_vars

\* Results shown for two different dryers after an earlier calculation was
\* left through both Back buttons
C26_Witness ==
    /\ step = "results"
    /\ Len(dryers) = 2
    /\ dryers[1].cfm # dryers[2].cfm
    /\ dryers[1].connector_dp # dryers[2].connector_dp
    /\ calculation_results.total_cfm = dryers[1].cfm + dryers[2].cfm
    /\ manifold_info.optimize

(* C27 *)

WizardSteps ==
    {"welcome", "project_info", "dryer_input", "manifold_input", "results"}

\* A stored project record that passed the form's validation
ValidProjectInfo(info) ==
    /\ info.set
    /\ "" \notin {info.name, info.zip, info.user_name, info.user_email}
    /\ ZipLen(info.zip) = 5
    /\ ZipIsDigit(info.zip)

\* The edges of the wizard
StepEdge ==
    step' # step =>
        \/ step = "welcome" /\ step' = "project_info"
        \/ /\ step = "project_info" /\ step' = "dryer_input"
           /\ ValidProjectInfo(project_info')
        \/ step = "dryer_input" /\ step' = "project_info"
        \/ /\ step = "dryer_input" /\ step' = "manifold_input"
           /\ dryers # <<>>
        \/ step = "manifold_input" /\ step' = "dryer_input"
        \/ /\ step = "manifold_input" /\ step' = "results"
           /\ SubmitManifold
           /\ calculation_results'.set
           /\ calculation_results'.total_cfm = total_cfm_of(dryers)
        \/ step = "results" /\ step' = "manifold_input"
        \/ /\ step' = "welcome"
           /\ StartOver \/ StartNewProject

\* C27: step is always one of the five wizard steps and changes only along
\* the edges welcome -> project_info, project_info -> dryer_input (with a
\* project record that passed validation), dryer_input -> project_info,
\* dryer_input -> manifold_input (dryers non-empty), manifold_input ->
\* dryer_input, manifold_input -> results (a manifold submission that stores
\* the results in the same step), results -> manifold_input, and any step ->
\* welcome by Start Over or Start New Project; at the results step a
\* calculation is stored
C27_StepsFollowEdges ==
    /\ [](step \in WizardSteps /\ (step = "results" => calculation_results.set))
    /\ [][StepEdge]_vars

\* Back on the manifold step from the results step: every forward edge and
\* the results -> manifold_input edge were taken
C27_Witness ==
    /\ step = "manifold_input"
    /\ calculation_results.set
    /\ ValidProjectInfo(project_info)
    /\ dryers # <<>>

(* C28 *)

\* after is before followed by exactly k entries equal to obj
AppendedExactly(before, after, obj, k) ==
    /\ Len(after) = Len(before) + k
    /\ SubSeq(after, 1, Len(before)) = before
    /\ \A i \in (Len(before) + 1)..Len(after) : after[i] = obj

\* What the add form does on the current list, for every form and copy count
AddFormAppendsMin ==
    (step = "dryer_input" /\ Len(dryers) < MaxDryers) =>
        \A f \in DryerForms, copy_count \in 1..MaxCopies :
            AppendedExactly(
                dryers,
                append_copies(dryers, dryer_obj(f),
                              Min(copy_count, MaxDryers - Len(dryers))),
                dryer_obj(f),
                IF copy_count <= MaxDryers - Len(dryers)
                THEN copy_count ELSE MaxDryers - Len(dryers))

\* Every step that lengthens the list is an add-form submission below the
\* limit, and every such submission appends copies of one dryer
AddStepAppends ==
    /\ Len(dryers') > Len(dryers) =>
           /\ AddDryers
           /\ Len(dryers) < MaxDryers
           /\ Len(dryers') <= MaxDryers
    /\ AddDryers =>
           \E f \in DryerForms, k \in 1..MaxCopies :
               /\ k <= MaxDryers - Len(dryers)
               /\ AppendedExactly(dryers, dryers', dryer_obj(f), k)

\* C28: with n dryers below the limit, the add form with copy count c yields
\* the existing list followed by exactly min(c, limit - n) dryers, each equal
\* to the dryer built from the form; with the list at the limit no step
\* lengthens it (MaxDryers stands for the program's limit of 20)
C28_AddAppendsMinCopies == []AddFormAppendsMin /\ [][AddStepAppends]_vars

\* The list filled to the limit by identical copies of one dryer
C28_Witness ==
    /\ step = "dryer_input"
    /\ Len(dryers) = MaxDryers
    /\ \A i \in 1..Len(dryers) : dryers[i] = dryers[1]

(* C29 *)

\* The session holds nothing of a design
SessionEmpty ==
    /\ project_info = EmptyDict
    /\ dryers = <<>>
    /\ manifold_info = EmptyDict
    /\ calculation_results = EmptyDict

\* C29: every Start Over and every Start New Project step ends at the welcome
\* step with dryers empty and project_info, manifold_info and
\* calculation_results empty, from whatever state it is taken; hence the
\* session is empty whenever the wizard is at the welcome step
C29_ResetClearsSession ==
    /\ [](step = "welcome" => SessionEmpty)
    /\ [][(StartOver \/ StartNewProject) =>
              (step' = "welcome" /\ SessionEmpty')]_vars

\* A session with a project, two dryers, a manifold and results, on a results
\* page that offers Start New Project next to the sidebar's Start Over
C29_Witness ==
    /\ step = "results"
    /\ results_page_complete
    /\ project_info.set
    /\ Len(dryers) = 2
    /\ manifold_info.set
    /\ calculation_results.set
    /\ report # None

(* C30 *)

\* The zip codes tried that consist of exactly five digits
FiveDigitZips == {"80202"}

\* The record a valid submission stores for a lookup result
StoredProjectInfo(project_name, zip_code, user_name, user_email, found) ==
    [set        |-> TRUE,
     name       |-> project_name,
     zip        |-> zip_code,
     user_name  |-> user_name,
     user_email |-> user_email,
     city       |-> IF found THEN "Denver" ELSE "Unknown",
     state      |-> IF found THEN "CO" ELSE "Unknown",
     elevation  |-> IF found THEN 5280 ELSE 0]

\* Records stored from fields that are all filled in, with a five-digit zip
AcceptedProjectInfos ==
    {StoredProjectInfo(n, z, u, e, found) :
        n \in ProjectNames \ {""}, z \in FiveDigitZips,
        u \in UserNames \ {""}, e \in UserEmails \ {""}, found \in BOOLEAN}

\* On the project step every valid submission can be made and advances,
\* whether the lookup succeeds or not
ValidSubmissionAdvances ==
    step = "project_info" =>
        \A info \in AcceptedProjectInfos :
            ENABLED (/\ SubmitProjectInfo
                     /\ step' = "dryer_input"
                     /\ project_info' = info)

\* A submission either changes nothing of the session or stores an accepted
\* record and advances
SubmissionRejectedOrStored ==
    SubmitProjectInfo =>
        \/ UNCHANGED session
        \/ /\ step' = "dryer_input"
           /\ project_info' \in AcceptedProjectInfos
           /\ UNCHANGED <<dryers, manifold_info, calculation_results>>

\* C30: a project form submission with an empty required field or a zip
\* code that is not five digits leaves step, project_info and the rest of the
\* session as they were, so a stored project record always has all four
\* fields filled in and a five-digit zip; a submission with valid fields
\* always advances to dryer_input, storing the lookup's city, state and
\* elevation, or 'Unknown', 'Unknown' and 0 when the lookup failed
C30_ProjectFormValidated ==
    /\ [](/\ ValidSubmissionAdvances
          /\ project_info.set => project_info \in AcceptedProjectInfos)
    /\ [][SubmissionRejectedOrStored]_vars

\* Advanced to the dryer step after a failed lookup
C30_Witness ==
    /\ step = "dryer_input"
    /\ project_info.set
    /\ project_info.zip \in FiveDigitZips
    /\ project_info.city = "Unknown"
    /\ project_info.state = "Unknown"
    /\ project_info.elevation = 0

=============================================================================
